---------------------------- MODULE Spec2Model ----------------------------
(***************************************************************************)
(* Model of w32_mutex (src/mutex.hpp): khmz::mutex, khmz::recursive_mutex, *)
(* khmz::lock_guard and khmz::unique_lock, together with the Win32         *)
(* primitives the wrappers call (a kernel mutex object waited on with      *)
(* WaitForSingleObject / released with ReleaseMutex, and a critical        *)
(* section).  Threads are the callers of the library.                      *)
(***************************************************************************)
EXTENDS Integers, FiniteSets, Sequences, TLC

\* The callers: two threads of execution.  The lock objects: two locks of one
\* class (a guard can be moved onto a guard of another lock of its class).
Threads == {1, 2}
Locks == {1, 2}
\* the unique_lock objects and the lock_guard objects of the program
Guards == {1, 2}
ScopedGuards == {1}
\* Guard 1 lives in scopes of thread 1, guard 2 in scopes of either thread;
\* thread 1 is the thread that outlives the other.
GuardThreads(g) == IF g = 1 THEN {1} ELSE Threads
MayExit == Threads \ {1}

(* ---- bound of the model ---- *)
\* deepest nesting of acquisitions of one lock by one thread
MaxDepth == 2

\* "no thread" (owner of an unowned object) and "no lock" (nullptr)
NoThread == 0
NoLock == 0
Kinds == {"mutex", "recursive_mutex"}

VARIABLES
    disable_throw,  \* KHMZ_DISABLE_THROW is defined (khmz_throw is a no-op)
    use_noexcept,   \* khmz_noexcept expands to noexcept
    kind,           \* T_MUTEX of this program: which lock class the locks are
    lk,             \* lk[l]: the native object of lock l (see NewLock)
    alive,          \* alive[t]: thread t has not terminated
    terminated,     \* std::terminate was called (an exception left a noexcept function)
    held,           \* held[t][l]: acquisitions of l that t was told it holds
    ul,             \* ul[g]: the khmz::unique_lock object g (see NoGuard)
    lg,             \* lg[g]: the khmz::lock_guard object g (see NoGuard)
    last            \* the last library call made and what the caller saw

(***************************************************************************)
(* The native objects.  handle: m_hMutex is non-null (a critical section   *)
(* is embedded by value, so always TRUE there); owner/count: the owning    *)
(* thread and its recursion count; abandoned: the owner of the kernel      *)
(* mutex terminated without releasing it; corrupt: the critical section    *)
(* was left by a thread that did not own it.                               *)
(***************************************************************************)
NewLock(h) ==
    [handle |-> h, owner |-> NoThread, count |-> 0,
     abandoned |-> FALSE, corrupt |-> FALSE]

\* WaitForSingleObject(m_hMutex, INFINITE or 0) called by thread t.
\* "BLOCK": the wait is not satisfied (an INFINITE wait stays blocked).
WaitForSingleObject(o, t, infinite) ==
    IF ~o.handle THEN [res |-> "WAIT_FAILED", o |-> o]
    ELSE IF o.abandoned
    THEN [res |-> "WAIT_ABANDONED",
          o |-> [o EXCEPT !.owner = t, !.count = 1, !.abandoned = FALSE]]
    ELSE IF o.owner = NoThread
    THEN [res |-> "WAIT_OBJECT_0", o |-> [o EXCEPT !.owner = t, !.count = 1]]
    ELSE IF o.owner = t
    THEN [res |-> "WAIT_OBJECT_0", o |-> [o EXCEPT !.count = @ + 1]]
    ELSE [res |-> IF infinite THEN "BLOCK" ELSE "WAIT_TIMEOUT", o |-> o]

\* a ReleaseMutex that releases one level whichever thread calls it
ReleaseMutex_by_anyone(o, t) ==
    IF o.handle /\ o.count > 0
    THEN [ok |-> TRUE,
          o |-> [o EXCEPT !.count = @ - 1,
                          !.owner = IF o.count = 1 THEN NoThread ELSE o.owner]]
    ELSE [ok |-> FALSE, o |-> o]

\* ReleaseMutex(m_hMutex) called by thread t: fails unless t owns the object.
ReleaseMutex(o, t) ==
    IF o.handle /\ o.owner = t /\ o.count > 0
    THEN [ok |-> TRUE,
          o |-> [o EXCEPT !.count = @ - 1,
                          !.owner = IF o.count = 1 THEN NoThread ELSE t]]
    ELSE [ok |-> FALSE, o |-> o]

\* EnterCriticalSection(&m_cs): never fails; blocks while another thread owns it.
EnterCriticalSection(o, t) ==
    IF o.corrupt THEN [res |-> "BLOCK", o |-> o]
    ELSE IF o.owner = NoThread
    THEN [res |-> "ENTERED", o |-> [o EXCEPT !.owner = t, !.count = 1]]
    ELSE IF o.owner = t
    THEN [res |-> "ENTERED", o |-> [o EXCEPT !.count = @ + 1]]
    ELSE [res |-> "BLOCK", o |-> o]

\* TryEnterCriticalSection(&m_cs): nonzero iff entered.
TryEnterCriticalSection(o, t) ==
    LET e == EnterCriticalSection(o, t)
    IN  [ok |-> e.res = "ENTERED", o |-> e.o]

\* LeaveCriticalSection(&m_cs) by the owner: one level of recursion is undone.
\* By a thread that does not own the section the behaviour is undefined: the
\* set holds the outcomes (nothing happens; the owner's level is taken away;
\* the section is corrupted and later waiters block for ever).
LeaveCriticalSection(o, t) ==
    LET dec == [o EXCEPT !.count = @ - 1,
                         !.owner = IF o.count = 1 THEN NoThread ELSE o.owner]
    IN  IF o.owner = t /\ o.count > 0 /\ ~o.corrupt THEN {dec}
        ELSE {o, [o EXCEPT !.corrupt = TRUE]}
             \cup (IF o.count > 0 THEN {dec} ELSE {})

(***************************************************************************)
(* khmz::mutex.  Each operator gives the set of outcomes of one call:      *)
(* [res, o] with res what the caller sees ("ok": returned normally,        *)
(* "throw": std::runtime_error propagates, "true"/"false": the value       *)
(* returned, "block": the call does not return in this state).             *)
(***************************************************************************)
\* khmz_throw(e): throw (e), or nothing when KHMZ_DISABLE_THROW is defined
khmz_throw(dt) == IF dt THEN "ok" ELSE "throw"

\* mutex(): m_hMutex(CreateMutex(NULL, FALSE, NULL)); created: the OS made it
mutex_ctor(created, dt) ==
    [res |-> IF created THEN "ok" ELSE khmz_throw(dt), o |-> NewLock(created)]

\* a lock() that polls once and does not look at the result of the wait
mutex_lock_unchecked(o, t, dt) ==
    {[res |-> "ok", o |-> WaitForSingleObject(o, t, FALSE).o]}

mutex_lock(o, t, dt) ==
    LET w == WaitForSingleObject(o, t, TRUE)
    IN  {[res |-> IF w.res = "BLOCK" THEN "block"
                  ELSE IF w.res # "WAIT_OBJECT_0" THEN khmz_throw(dt)
                  ELSE "ok",
          o |-> w.o]}

\* an unlock() that reports success without calling ReleaseMutex
mutex_unlock_skipped(o, t, dt) == {[res |-> "ok", o |-> o]}

mutex_unlock(o, t, dt) ==
    LET r == ReleaseMutex(o, t)
    IN  {[res |-> IF ~r.ok THEN khmz_throw(dt) ELSE "ok", o |-> r.o]}

\* a try_lock() that answers true whatever the wait returned
mutex_try_lock_always(o, t, dt) ==
    {[res |-> "true", o |-> WaitForSingleObject(o, t, FALSE).o]}

mutex_try_lock(o, t, dt) ==
    LET w == WaitForSingleObject(o, t, FALSE)
    IN  {[res |-> IF w.res = "WAIT_OBJECT_0" THEN "true" ELSE "false", o |-> w.o]}

(* khmz::recursive_mutex *)
recursive_mutex_ctor == [res |-> "ok", o |-> NewLock(TRUE)]

recursive_mutex_lock(o, t, dt) ==
    LET e == EnterCriticalSection(o, t)
    IN  {[res |-> IF e.res = "BLOCK" THEN "block" ELSE "ok", o |-> e.o]}

recursive_mutex_unlock(o, t, dt) ==
    {[res |-> "ok", o |-> n] : n \in LeaveCriticalSection(o, t)}

\* a try_lock() that tests the result of TryEnterCriticalSection the wrong way round
recursive_mutex_try_lock_inverted(o, t, dt) ==
    LET e == TryEnterCriticalSection(o, t)
    IN  {[res |-> IF e.ok THEN "false" ELSE "true", o |-> e.o]}

recursive_mutex_try_lock(o, t, dt) ==
    LET e == TryEnterCriticalSection(o, t)
    IN  {[res |-> IF e.ok THEN "true" ELSE "false", o |-> e.o]}

(* T_MUTEX: the calls a guard (or a caller) makes on a lock of class k *)
T_lock(k, o, t, dt) ==
    IF k = "mutex" THEN mutex_lock(o, t, dt) ELSE recursive_mutex_lock(o, t, dt)

T_unlock(k, o, t, dt) ==
    IF k = "mutex" THEN mutex_unlock(o, t, dt) ELSE recursive_mutex_unlock(o, t, dt)

T_try_lock(k, o, t, dt) ==
    IF k = "mutex" THEN mutex_try_lock(o, t, dt)
    ELSE recursive_mutex_try_lock(o, t, dt)

(***************************************************************************)
(* The guards.  A guard object is a record: live (constructed and not yet  *)
(* destroyed), m_mutex (the lock it refers to, NoLock for nullptr),        *)
(* m_owns_lock (unique_lock only), t (the thread whose scope holds the     *)
(* guard) and acq, an account kept for the claims: the acquisitions of the *)
(* native object obtained by calls of this guard and not yet given back by *)
(* a call of this guard.                                                   *)
(*                                                                         *)
(* Each operator gives the set of outcomes of one call: [res, u, v, L,     *)
(* calls] with u the guard afterwards (v: the other guard of a move), L    *)
(* the lock objects afterwards and calls the calls made on T_MUTEX, each   *)
(* <<function, lock>>.  res is as for the locks, and "terminate" when an   *)
(* exception leaves a noexcept function, "crash" when a member of T_MUTEX  *)
(* is called through a null m_mutex.                                       *)
(***************************************************************************)
NoGuard ==
    [live |-> FALSE, m_mutex |-> NoLock, m_owns_lock |-> FALSE,
     t |-> NoThread, acq |-> 0]

Out(res, u, v, L, calls) == [res |-> res, u |-> u, v |-> v, L |-> L, calls |-> calls]

\* 1 when the call that took the native object from o to o2 gave thread t one
\* more level of ownership, else 0
Gained(o, o2, t) ==
    IF o2.owner = t /\ o2.count > (IF o.owner = t THEN o.count ELSE 0) THEN 1 ELSE 0

\* 1 when the call that took the native object from o to o2 took one level of
\* ownership from thread t, else 0
Lost(o, o2, t) ==
    IF o.owner = t /\ (o2.owner # t \/ o2.count < o.count) THEN 1 ELSE 0

Less(n, d) == IF n > d THEN n - d ELSE 0

\* an exception leaving a function declared khmz_noexcept
khmz_noexcept(ne) == IF ne THEN "terminate" ELSE "throw"

(* khmz::lock_guard<T_MUTEX> *)
\* explicit lock_guard(T_MUTEX& m) khmz_noexcept : m_mutex(m) { m_mutex.lock(); }
lock_guard_ctor(k, t, l, L, dt, ne) ==
    {IF r.res = "ok"
     THEN Out("ok", [NoGuard EXCEPT !.live = TRUE, !.m_mutex = l, !.t = t,
                                    !.acq = Gained(L[l], r.o, t)],
              NoGuard, [L EXCEPT ![l] = r.o], <<<<"lock", l>>>>)
     ELSE Out(IF r.res = "throw" THEN khmz_noexcept(ne) ELSE r.res,
              NoGuard, NoGuard, [L EXCEPT ![l] = r.o], <<<<"lock", l>>>>)
     : r \in T_lock(k, L[l], t, dt)}

\* a destructor that forgets to unlock
lock_guard_dtor_empty(k, u, L, dt) == {Out("ok", NoGuard, NoGuard, L, <<>>)}

\* ~lock_guard() khmz_noexcept { m_mutex.unlock(); }
lock_guard_dtor(k, u, L, dt) ==
    {Out(IF r.res = "throw" THEN "terminate" ELSE r.res,
         NoGuard, NoGuard, [L EXCEPT ![u.m_mutex] = r.o], <<<<"unlock", u.m_mutex>>>>)
     : r \in T_unlock(k, L[u.m_mutex], u.t, dt)}

(* khmz::unique_lock<T_MUTEX> *)
\* explicit unique_lock(T_MUTEX& m) khmz_noexcept
unique_lock_ctor(k, t, l, L, dt, ne) ==
    {IF r.res = "ok"
     THEN Out("ok", [NoGuard EXCEPT !.live = TRUE, !.m_mutex = l, !.m_owns_lock = TRUE,
                                    !.t = t, !.acq = Gained(L[l], r.o, t)],
              NoGuard, [L EXCEPT ![l] = r.o], <<<<"lock", l>>>>)
     ELSE Out(IF r.res = "throw" THEN khmz_noexcept(ne) ELSE r.res,
              NoGuard, NoGuard, [L EXCEPT ![l] = r.o], <<<<"lock", l>>>>)
     : r \in T_lock(k, L[l], t, dt)}

\* a default constructor that sets m_owns_lock
unique_lock_default_owning(t, L) ==
    {Out("ok", [NoGuard EXCEPT !.live = TRUE, !.t = t, !.m_owns_lock = TRUE],
         NoGuard, L, <<>>)}

\* unique_lock() khmz_noexcept : m_mutex(nullptr), m_owns_lock(false)
unique_lock_default(t, L) ==
    {Out("ok", [NoGuard EXCEPT !.live = TRUE, !.t = t], NoGuard, L, <<>>)}

\* a move constructor that copies and leaves other as it was
unique_lock_move_ctor_copy(v, L) == {Out("ok", v, v, L, <<>>)}

\* unique_lock(unique_lock&& other): u is the guard constructed, v is other
unique_lock_move_ctor(v, L) ==
    {Out("ok", v, [v EXCEPT !.m_mutex = NoLock, !.m_owns_lock = FALSE, !.acq = 0],
         L, <<>>)}

\* a move assignment that takes over other's state without unlocking what
\* *this owned
unique_lock_move_assign_nounlock(k, u, v, self, L, dt, ne) ==
    IF self THEN {Out("ok", u, u, L, <<>>)}
    ELSE {Out("ok",
              [u EXCEPT !.m_mutex = v.m_mutex, !.m_owns_lock = v.m_owns_lock,
                        !.acq = v.acq],
              [v EXCEPT !.m_mutex = NoLock, !.m_owns_lock = FALSE, !.acq = 0],
              L, <<>>)}

\* unique_lock& operator=(unique_lock&& other): u is *this, v is other,
\* self is this == &other
unique_lock_move_assign(k, u, v, self, L, dt, ne) ==
    LET take(L2, calls) ==
            Out("ok",
                [u EXCEPT !.m_mutex = v.m_mutex, !.m_owns_lock = v.m_owns_lock,
                          !.acq = v.acq],
                [v EXCEPT !.m_mutex = NoLock, !.m_owns_lock = FALSE, !.acq = 0],
                L2, calls)
    IN  IF self THEN {Out("ok", u, u, L, <<>>)}
        ELSE IF u.m_owns_lock /\ u.m_mutex # NoLock
        THEN {IF r.res = "throw"
              THEN Out(khmz_noexcept(ne), u, v, [L EXCEPT ![u.m_mutex] = r.o],
                       <<<<"unlock", u.m_mutex>>>>)
              ELSE take([L EXCEPT ![u.m_mutex] = r.o], <<<<"unlock", u.m_mutex>>>>)
              : r \in T_unlock(k, L[u.m_mutex], u.t, dt)}
        ELSE {take(L, <<>>)}

\* a destructor that forgets to unlock
unique_lock_dtor_empty(k, u, L, dt) == {Out("ok", NoGuard, NoGuard, L, <<>>)}

\* ~unique_lock() khmz_noexcept
unique_lock_dtor(k, u, L, dt) ==
    IF ~u.m_owns_lock THEN {Out("ok", NoGuard, NoGuard, L, <<>>)}
    ELSE IF u.m_mutex = NoLock
    THEN {Out("crash", NoGuard, NoGuard, L, <<<<"unlock", NoLock>>>>)}
    ELSE {Out(IF r.res = "throw" THEN "terminate" ELSE r.res,
              NoGuard, NoGuard, [L EXCEPT ![u.m_mutex] = r.o],
              <<<<"unlock", u.m_mutex>>>>)
          : r \in T_unlock(k, L[u.m_mutex], u.t, dt)}

\* a lock() whose test of m_owns_lock is missing
unique_lock_lock_unchecked(k, u, L, dt) ==
    IF u.m_mutex = NoLock
    THEN {Out("crash", u, NoGuard, L, <<<<"lock", NoLock>>>>)}
    ELSE {Out(r.res,
              IF r.res = "block" THEN u
              ELSE [u EXCEPT !.m_owns_lock = (r.res = "ok"),
                             !.acq = @ + Gained(L[u.m_mutex], r.o, u.t)],
              NoGuard, [L EXCEPT ![u.m_mutex] = r.o], <<<<"lock", u.m_mutex>>>>)
          : r \in T_lock(k, L[u.m_mutex], u.t, dt)}

\* a lock() that sets m_owns_lock before the call and has no catch block
unique_lock_lock_nocatch(k, u, L, dt) ==
    IF u.m_owns_lock /\ khmz_throw(dt) = "throw" THEN {Out("throw", u, NoGuard, L, <<>>)}
    ELSE IF u.m_mutex = NoLock
    THEN {Out("crash", u, NoGuard, L, <<<<"lock", NoLock>>>>)}
    ELSE {Out(r.res,
              IF r.res = "block" THEN u
              ELSE [u EXCEPT !.m_owns_lock = TRUE,
                             !.acq = @ + Gained(L[u.m_mutex], r.o, u.t)],
              NoGuard, [L EXCEPT ![u.m_mutex] = r.o], <<<<"lock", u.m_mutex>>>>)
          : r \in T_lock(k, L[u.m_mutex], u.t, dt)}

\* void lock()
unique_lock_lock(k, u, L, dt) ==
    IF u.m_owns_lock /\ khmz_throw(dt) = "throw" THEN {Out("throw", u, NoGuard, L, <<>>)}
    ELSE IF u.m_mutex = NoLock
    THEN {Out("crash", u, NoGuard, L, <<<<"lock", NoLock>>>>)}
    ELSE {Out(r.res,
              IF r.res = "block" THEN u
              ELSE [u EXCEPT !.m_owns_lock = (r.res = "ok"),
                             !.acq = @ + Gained(L[u.m_mutex], r.o, u.t)],
              NoGuard, [L EXCEPT ![u.m_mutex] = r.o], <<<<"lock", u.m_mutex>>>>)
          : r \in T_lock(k, L[u.m_mutex], u.t, dt)}

\* bool try_lock()
unique_lock_try_lock(k, u, L, dt) ==
    IF u.m_owns_lock /\ khmz_throw(dt) = "throw" THEN {Out("throw", u, NoGuard, L, <<>>)}
    ELSE IF u.m_mutex = NoLock
    THEN {Out("crash", u, NoGuard, L, <<<<"try_lock", NoLock>>>>)}
    ELSE {Out(r.res,
              [u EXCEPT !.m_owns_lock = (r.res = "true"),
                        !.acq = @ + Gained(L[u.m_mutex], r.o, u.t)],
              NoGuard, [L EXCEPT ![u.m_mutex] = r.o], <<<<"try_lock", u.m_mutex>>>>)
          : r \in T_try_lock(k, L[u.m_mutex], u.t, dt)}

\* void unlock()
unique_lock_unlock(k, u, L, dt) ==
    IF ~u.m_owns_lock /\ khmz_throw(dt) = "throw" THEN {Out("throw", u, NoGuard, L, <<>>)}
    ELSE IF u.m_mutex = NoLock
    THEN {Out("crash", u, NoGuard, L, <<<<"unlock", NoLock>>>>)}
    ELSE {Out(r.res,
              IF r.res = "throw" THEN u
              ELSE [u EXCEPT !.m_owns_lock = FALSE,
                             !.acq = Less(@, Lost(L[u.m_mutex], r.o, u.t))],
              NoGuard, [L EXCEPT ![u.m_mutex] = r.o], <<<<"unlock", u.m_mutex>>>>)
          : r \in T_unlock(k, L[u.m_mutex], u.t, dt)}

\* a release() that clears m_mutex and leaves m_owns_lock as it is
unique_lock_release_keep_flag(u, L) ==
    {Out("ok", [u EXCEPT !.m_mutex = NoLock], NoGuard, L, <<>>)}

\* void release() khmz_noexcept
unique_lock_release(u, L) ==
    {Out("ok", [u EXCEPT !.m_mutex = NoLock, !.m_owns_lock = FALSE, !.acq = 0],
         NoGuard, L, <<>>)}

\* bool owns_lock() const khmz_noexcept: a query, no step of the program
unique_lock_owns_lock(u) == u.m_owns_lock

(***************************************************************************)
(* The callers.  A thread calls lock(), unlock() and try_lock() on the     *)
(* lock objects directly, and constructs, uses and destroys guards in its  *)
(* scopes.  held[t][l] is the caller's own account: it goes up when an     *)
(* acquire reported success and down when a release of such an acquisition *)
(* returned normally.                                                      *)
(***************************************************************************)
\* op by thread t on lock l (through guard g; h: the guard moved from)
Call(op, t, l, g, h, res, calls) ==
    [op |-> op, t |-> t, l |-> l, g |-> g, h |-> h, res |-> res, calls |-> calls]

Running(t) == ~terminated /\ alive[t]

\* a thread nests at most MaxDepth acquisitions of one lock
MayAcquire(t, l) ==
    held[t][l] < MaxDepth /\ ~(lk[l].owner = t /\ lk[l].count >= MaxDepth)

\* the levels of ownership of l that guards of thread t are answerable for
GuardHeld(t, l) ==
    LET n(u) == IF u.live /\ u.t = t /\ u.m_mutex = l THEN u.acq ELSE 0
        S[G \in SUBSET Guards] ==
            IF G = {} THEN 0 ELSE LET g == CHOOSE x \in G : TRUE IN n(ul[g]) + S[G \ {g}]
        Z[G \in SUBSET ScopedGuards] ==
            IF G = {} THEN 0 ELSE LET g == CHOOSE x \in G : TRUE IN n(lg[g]) + Z[G \ {g}]
    IN  S[Guards] + Z[ScopedGuards]

\* m.lock() by thread t: enabled when the call returns
Lock(t, l) ==
    /\ Running(t) /\ MayAcquire(t, l)
    /\ \E r \in T_lock(kind, lk[l], t, disable_throw) :
        /\ r.res # "block"
        /\ lk' = [lk EXCEPT ![l] = r.o]
        /\ held' = [held EXCEPT ![t][l] = IF r.res = "ok" THEN @ + 1 ELSE @]
        /\ last' = Call("lock", t, l, 0, 0, r.res, <<>>)
    /\ UNCHANGED <<disable_throw, use_noexcept, kind, alive, terminated, ul, lg>>

\* m.try_lock() by thread t
TryLock(t, l) ==
    /\ Running(t) /\ MayAcquire(t, l)
    /\ \E r \in T_try_lock(kind, lk[l], t, disable_throw) :
        /\ lk' = [lk EXCEPT ![l] = r.o]
        /\ held' = [held EXCEPT ![t][l] = IF r.res = "true" THEN @ + 1 ELSE @]
        /\ last' = Call("try_lock", t, l, 0, 0, r.res, <<>>)
    /\ UNCHANGED <<disable_throw, use_noexcept, kind, alive, terminated, ul, lg>>

\* m.unlock() by thread t, where the call is defined (on a khmz::mutex by any
\* thread, on a khmz::recursive_mutex by the thread that owns it) and does not
\* give back a level of ownership that a guard of the thread is answerable for
Unlock(t, l) ==
    /\ Running(t)
    /\ kind = "mutex" \/ (lk[l].owner = t /\ ~lk[l].corrupt)
    /\ lk[l].owner = t => lk[l].count > GuardHeld(t, l)
    /\ \E r \in T_unlock(kind, lk[l], t, disable_throw) :
        /\ lk' = [lk EXCEPT ![l] = r.o]
        /\ held' = [held EXCEPT ![t][l] = IF r.res = "ok" /\ @ > 0 THEN @ - 1 ELSE @]
        /\ last' = Call("unlock", t, l, 0, 0, r.res, <<>>)
    /\ UNCHANGED <<disable_throw, use_noexcept, kind, alive, terminated, ul, lg>>

\* thread t ends without releasing what it owns: a kernel mutex it owns becomes
\* abandoned, a critical section it owns stays owned
Abandon(o, t) ==
    IF o.owner = t /\ o.handle /\ kind = "mutex"
    THEN [o EXCEPT !.owner = NoThread, !.count = 0, !.abandoned = TRUE]
    ELSE o

\* the guards in the scopes of a thread that ended are gone, undestroyed
Gone(u, t) == IF u.t = t THEN NoGuard ELSE u

ThreadExit(t) ==
    /\ Running(t)
    /\ alive' = [alive EXCEPT ![t] = FALSE]
    /\ lk' = [l \in Locks |-> Abandon(lk[l], t)]
    /\ ul' = [g \in Guards |-> Gone(ul[g], t)]
    /\ lg' = [g \in ScopedGuards |-> Gone(lg[g], t)]
    /\ last' = Call("exit", t, 0, 0, 0, "ok", <<>>)
    /\ UNCHANGED <<disable_throw, use_noexcept, kind, terminated, held>>

\* what a call on a guard leaves behind: r is its outcome
Returns(op, t, l, g, h, r) ==
    /\ r.res # "block"
    /\ lk' = r.L
    /\ terminated' = (r.res \in {"terminate", "crash"})
    /\ last' = Call(op, t, l, g, h, r.res, r.calls)
    /\ UNCHANGED <<disable_throw, use_noexcept, kind, alive, held>>

\* the guard's thread may call lock() or try_lock() through it
GuardMayAcquire(u) ==
    /\ u.acq < MaxDepth
    /\ u.m_mutex # NoLock =>
          ~(lk[u.m_mutex].owner = u.t /\ lk[u.m_mutex].count >= MaxDepth)

(* lock_guard<T_MUTEX> g(m) in a scope of thread t, and the end of that scope *)
ScopeEnter(t, g, l) ==
    /\ Running(t) /\ ~lg[g].live
    /\ ~(lk[l].owner = t /\ lk[l].count >= MaxDepth)
    /\ \E r \in lock_guard_ctor(kind, t, l, lk, disable_throw, use_noexcept) :
        /\ Returns("lock_guard", t, l, g, 0, r)
        /\ lg' = [lg EXCEPT ![g] = r.u]
    /\ UNCHANGED ul

\* the scope is left by a normal return or by an exception passing through it:
\* either way the destructor runs
ScopeExit(g, path) ==
    /\ lg[g].live /\ Running(lg[g].t)
    /\ \E r \in lock_guard_dtor(kind, lg[g], lk, disable_throw) :
        /\ Returns(path, lg[g].t, lg[g].m_mutex, g, 0, r)
        /\ lg' = [lg EXCEPT ![g] = r.u]
    /\ UNCHANGED ul

(* unique_lock<T_MUTEX> *)
Construct(t, g, l) ==
    /\ Running(t) /\ t \in GuardThreads(g) /\ ~ul[g].live
    /\ ~(lk[l].owner = t /\ lk[l].count >= MaxDepth)
    /\ \E r \in unique_lock_ctor(kind, t, l, lk, disable_throw, use_noexcept) :
        /\ Returns("unique_lock", t, l, g, 0, r)
        /\ ul' = [ul EXCEPT ![g] = r.u]
    /\ UNCHANGED lg

ConstructDefault(t, g) ==
    /\ Running(t) /\ t \in GuardThreads(g) /\ ~ul[g].live
    /\ \E r \in unique_lock_default(t, lk) :
        /\ Returns("unique_lock_default", t, NoLock, g, 0, r)
        /\ ul' = [ul EXCEPT ![g] = r.u]
    /\ UNCHANGED lg

\* unique_lock g(std::move(h))
MoveConstruct(g, h) ==
    /\ g # h /\ ~ul[g].live /\ ul[h].live /\ Running(ul[h].t)
    /\ ul[h].t \in GuardThreads(g)
    /\ \E r \in unique_lock_move_ctor(ul[h], lk) :
        /\ Returns("move_ctor", ul[h].t, ul[h].m_mutex, g, h, r)
        /\ ul' = [ul EXCEPT ![g] = r.u, ![h] = r.v]
    /\ UNCHANGED lg

\* g = std::move(h), both in scopes of one thread
MoveAssign(g, h) ==
    /\ ul[g].live /\ ul[h].live /\ ul[g].t = ul[h].t /\ Running(ul[g].t)
    /\ \E r \in unique_lock_move_assign(kind, ul[g], ul[h], g = h, lk,
                                        disable_throw, use_noexcept) :
        /\ Returns("move_assign", ul[g].t, ul[h].m_mutex, g, h, r)
        /\ ul' = [ul EXCEPT ![h] = r.v, ![g] = r.u]
    /\ UNCHANGED lg

Destroy(g) ==
    /\ ul[g].live /\ Running(ul[g].t)
    /\ \E r \in unique_lock_dtor(kind, ul[g], lk, disable_throw) :
        /\ Returns("dtor", ul[g].t, ul[g].m_mutex, g, 0, r)
        /\ ul' = [ul EXCEPT ![g] = r.u]
    /\ UNCHANGED lg

GuardLock(g) ==
    /\ ul[g].live /\ Running(ul[g].t) /\ GuardMayAcquire(ul[g])
    /\ \E r \in unique_lock_lock(kind, ul[g], lk, disable_throw) :
        /\ Returns("ul_lock", ul[g].t, ul[g].m_mutex, g, 0, r)
        /\ ul' = [ul EXCEPT ![g] = r.u]
    /\ UNCHANGED lg

GuardTryLock(g) ==
    /\ ul[g].live /\ Running(ul[g].t) /\ GuardMayAcquire(ul[g])
    /\ \E r \in unique_lock_try_lock(kind, ul[g], lk, disable_throw) :
        /\ Returns("ul_try_lock", ul[g].t, ul[g].m_mutex, g, 0, r)
        /\ ul' = [ul EXCEPT ![g] = r.u]
    /\ UNCHANGED lg

GuardUnlock(g) ==
    /\ ul[g].live /\ Running(ul[g].t)
    /\ \E r \in unique_lock_unlock(kind, ul[g], lk, disable_throw) :
        /\ Returns("ul_unlock", ul[g].t, ul[g].m_mutex, g, 0, r)
        /\ ul' = [ul EXCEPT ![g] = r.u]
    /\ UNCHANGED lg

GuardRelease(g) ==
    /\ ul[g].live /\ Running(ul[g].t)
    /\ \E r \in unique_lock_release(ul[g], lk) :
        /\ Returns("release", ul[g].t, ul[g].m_mutex, g, 0, r)
        /\ ul' = [ul EXCEPT ![g] = r.u]
    /\ UNCHANGED lg

\* The constructed lock objects.  A khmz::mutex whose CreateMutex failed exists
\* only when the constructor's khmz_throw is a no-op (its handle is then NULL).
Constructed(k, dt) ==
    IF k = "mutex"
    THEN {c.o : c \in {c \in {mutex_ctor(b, dt) : b \in BOOLEAN} : c.res = "ok"}}
    ELSE {recursive_mutex_ctor.o}

\* the program after the construction of its lock objects
InitLocks ==
    /\ disable_throw \in BOOLEAN
    /\ kind \in Kinds
    /\ lk \in [Locks -> Constructed(kind, disable_throw)]
    /\ alive = [t \in Threads |-> TRUE]
    /\ terminated = FALSE
    /\ held = [t \in Threads |-> [l \in Locks |-> 0]]
    /\ ul = [g \in Guards |-> NoGuard]
    /\ lg = [g \in ScopedGuards |-> NoGuard]
    /\ last = Call("init", 0, 0, 0, 0, "ok", <<>>)

vars == <<disable_throw, use_noexcept, kind, lk, alive, terminated, held, ul, lg, last>>

(* Threads using the locks directly: no guard, so khmz_noexcept plays no part *)
Init == InitLocks /\ use_noexcept = FALSE

NextLock ==
    \/ \E t \in Threads, l \in Locks : Lock(t, l)
    \/ \E t \in Threads, l \in Locks : TryLock(t, l)
    \/ \E t \in Threads, l \in Locks : Unlock(t, l)
    \/ \E t \in Threads : ThreadExit(t)

SpecLock == Init /\ [][NextLock]_vars

(* Threads using the locks directly and through lock_guard *)
InitGuards == InitLocks /\ use_noexcept \in BOOLEAN

NextScoped ==
    \/ NextLock
    \/ \E t \in Threads, g \in ScopedGuards, l \in Locks : ScopeEnter(t, g, l)
    \/ \E g \in ScopedGuards, path \in {"return", "exception"} : ScopeExit(g, path)

SpecScoped == InitGuards /\ [][NextScoped]_vars

(* Threads using the locks directly and through unique_lock *)
NextGuard ==
    \/ \E t \in Threads, l \in Locks : Unlock(t, l)
    \/ \E t \in MayExit : ThreadExit(t)
    \/ \E t \in Threads, g \in Guards, l \in Locks : Construct(t, g, l)
    \/ \E t \in Threads, g \in Guards : ConstructDefault(t, g)
    \/ \E g, h \in Guards : MoveConstruct(g, h)
    \/ \E g, h \in Guards : MoveAssign(g, h)
    \/ \E g \in Guards : Destroy(g)
    \/ \E g \in Guards : GuardLock(g)
    \/ \E g \in Guards : GuardTryLock(g)
    \/ \E g \in Guards : GuardUnlock(g)
    \/ \E g \in Guards : GuardRelease(g)

Spec == InitGuards /\ [][NextGuard]_vars

(* Worker threads: each thread runs one function that protects a critical     *)
(* section on one shared lock with a guard on its stack, a lock_guard or a   *)
(* unique_lock constructed on the lock, and returns when the section is done *)
SharedLock == 1

\* thread t is inside its critical section: its guard lives
InCS(t) == (\E g \in ScopedGuards : lg[g].live /\ lg[g].t = t) \/ (ul[t].live /\ ul[t].t = t)

\* the guard is constructed: enabled when the constructor's lock() returns
WorkerEnter(t) ==
    /\ ~InCS(t)
    /\ \/ \E g \in ScopedGuards : ScopeEnter(t, g, SharedLock)
       \/ Construct(t, t, SharedLock)

\* what the end of the thread function leaves behind: r is the outcome of the
\* guard's destructor, after which the thread ends
Ends(t, l, g, r) ==
    /\ r.res # "block"
    /\ lk' = [m \in Locks |-> Abandon(r.L[m], t)]
    /\ terminated' = (r.res \in {"terminate", "crash"})
    /\ alive' = [alive EXCEPT ![t] = FALSE]
    /\ last' = Call("return", t, l, g, 0, r.res, r.calls)
    /\ UNCHANGED <<disable_throw, use_noexcept, kind, held>>

\* the critical section is done and the thread function returns: the guard is
\* destroyed and the thread ends
WorkerLeave(t) ==
    /\ Running(t)
    /\ \/ \E g \in ScopedGuards :
            /\ lg[g].live /\ lg[g].t = t
            /\ \E r \in lock_guard_dtor(kind, lg[g], lk, disable_throw) :
                /\ Ends(t, lg[g].m_mutex, g, r)
                /\ lg' = [lg EXCEPT ![g] = r.u]
            /\ UNCHANGED ul
       \/ /\ ul[t].live /\ ul[t].t = t
          /\ \E r \in unique_lock_dtor(kind, ul[t], lk, disable_throw) :
                /\ Ends(t, ul[t].m_mutex, t, r)
                /\ ul' = [ul EXCEPT ![t] = r.u]
          /\ UNCHANGED lg

NextProgress ==
    \/ \E t \in Threads : WorkerEnter(t)
    \/ \E t \in Threads : WorkerLeave(t)

\* a thread that can run does run: a wait that can be satisfied returns, and a
\* critical section ends
FairProgress ==
    \A t \in Threads : WF_vars(WorkerEnter(t)) /\ WF_vars(WorkerLeave(t))

SpecProgress == InitGuards /\ [][NextProgress]_vars /\ FairProgress

(***************************************************************************)
(* Claims about the lock classes, checked under SpecLock.                  *)
(***************************************************************************)
Holders(l) == {t \in Threads : alive[t] /\ held[t][l] > 0}

\* a lock() call on l by t has just returned normally
LockReturned(t, l) == last'.op = "lock" /\ last'.t = t /\ last'.l = l /\ last'.res = "ok"

\* C1 as stated, for every khmz::mutex object: a thread that lock() returned
\* normally to owns the lock until it has unlocked, so at most one thread holds
\* it, and lock() returns normally only when no other thread owns the lock.
C1_MutualExclusion_AnyMutex ==
    /\ [](kind = "mutex" =>
            \A l \in Locks :
                /\ Cardinality(Holders(l)) <= 1
                /\ \A t \in Holders(l) : lk[l].owner = t)
    /\ [][kind = "mutex" =>
            \A l \in Locks, t \in Threads :
                LockReturned(t, l) => lk[l].owner \in {NoThread, t}]_vars

\* C1 (amended): the same for every khmz::mutex whose native handle was created,
\* which is every khmz::mutex of the default configuration.
C1_MutualExclusion ==
    /\ [](kind = "mutex" =>
            \A l \in Locks : lk[l].handle =>
                /\ Cardinality(Holders(l)) <= 1
                /\ \A t \in Holders(l) : lk[l].owner = t)
    /\ [][kind = "mutex" =>
            \A l \in Locks, t \in Threads :
                LockReturned(t, l) => lk[l].owner \in {NoThread, t}]_vars

\* thread 1 holds a mutex after lock() returned while thread 2 is running
C1_Witness ==
    /\ kind = "mutex" /\ ~disable_throw
    /\ last.op = "lock" /\ last.res = "ok" /\ last.t = 1
    /\ lk[last.l].owner = 1 /\ held[1][last.l] = 1 /\ alive[2]

Balanced(l) == \A t \in Threads : held[t][l] = 0

\* C2 as stated, for every lock object of either class: when every acquire that
\* reported success has been matched by a release, nobody owns the lock and a
\* try_lock() by any thread returns true.
C2_NoLeakedOwnership_AnyLock ==
    /\ [](\A l \in Locks : Balanced(l) => lk[l].owner = NoThread)
    /\ [][\A l \in Locks :
            Balanced(l) /\ last'.op = "try_lock" /\ last'.l = l
                => last'.res = "true"]_vars

\* C2 (amended): the same for every lock whose native object was created.
C2_NoLeakedOwnership ==
    /\ [](\A l \in Locks : lk[l].handle /\ Balanced(l) => lk[l].owner = NoThread)
    /\ [][\A l \in Locks :
            lk[l].handle /\ Balanced(l) /\ last'.op = "try_lock" /\ last'.l = l
                => last'.res = "true"]_vars

\* thread 1 has just released its last acquisition (default configuration, so
\* the release was a real one) and thread 2 is running: the lock is free
C2_Witness ==
    /\ ~disable_throw
    /\ last.op = "unlock" /\ last.res = "ok" /\ last.t = 1
    /\ Balanced(last.l) /\ lk[last.l].owner = NoThread /\ alive[2]
    /\ \A r \in T_try_lock(kind, lk[last.l], 2, disable_throw) : r.res = "true"

\* C3: a thread that owns a khmz::recursive_mutex acquires it again without
\* blocking; while a thread has k > 0 acquisitions outstanding it owns the lock
\* with recursion count k, no other thread's lock() returns and every other
\* thread's try_lock() returns false without changing the lock.
C3_RecursiveNesting ==
    /\ [](kind = "recursive_mutex" =>
            \A l \in Locks, t \in Threads :
                /\ held[t][l] > 0 => lk[l].owner = t /\ lk[l].count = held[t][l]
                /\ lk[l].owner = t =>
                      \A r \in recursive_mutex_lock(lk[l], t, disable_throw) :
                          r.res = "ok" /\ r.o.count = lk[l].count + 1)
    /\ [][kind = "recursive_mutex" =>
            \A l \in Locks, t \in Threads :
                held[t][l] > 0 /\ last'.l = l /\ last'.t # t =>
                    /\ last'.op # "lock"
                    /\ last'.op = "try_lock" => last'.res = "false" /\ lk' = lk]_vars

\* thread 1 nested two acquisitions and released one: the lock is still its own
\* and thread 2, running, cannot have it
C3_Witness ==
    /\ kind = "recursive_mutex"
    /\ last.op = "unlock" /\ last.t = 1 /\ held[1][last.l] = MaxDepth - 1
    /\ lk[last.l].owner = 1 /\ alive[2]
    /\ \A r \in recursive_mutex_try_lock(lk[last.l], 2, disable_throw) : r.res = "false"

\* C4 as stated, for a khmz::mutex whose handle was created: try_lock() returns
\* true or false; it returns false and leaves the lock as it was when another
\* thread owns it; it returns true and makes the caller the owner when no live
\* thread owns it.
C4_TryLockContract ==
    [][kind = "mutex" /\ last'.op = "try_lock" /\ lk[last'.l].handle =>
        LET l == last'.l
            t == last'.t
        IN  /\ last'.res \in {"true", "false"}
            /\ lk[l].owner \notin {NoThread, t} =>
                  last'.res = "false" /\ lk'[l] = lk[l]
            /\ lk[l].owner = NoThread =>
                  last'.res = "true" /\ lk'[l].owner = t]_vars

(***************************************************************************)
(* Claims about khmz::lock_guard, checked under SpecScoped.                *)
(***************************************************************************)
\* the step is the end of the scope of lock_guard g
ScopeLeft(g) == last'.op \in {"return", "exception"} /\ last'.g = g

\* C5 as stated, for a guard on any lock: while the guard lives its thread owns
\* the referenced lock; leaving the scope, by return or by exception, makes the
\* guard call unlock() on that lock exactly once, which gives back one level of
\* ownership, and the guard is gone.
C5_ScopedGuard_AnyLock ==
    /\ [](\A g \in ScopedGuards :
            lg[g].live => lk[lg[g].m_mutex].owner = lg[g].t)
    /\ [][\A g \in ScopedGuards :
            ScopeLeft(g) =>
                /\ last'.calls = <<<<"unlock", lg[g].m_mutex>>>>
                /\ Lost(lk[lg[g].m_mutex], lk'[lg[g].m_mutex], lg[g].t) = 1
                /\ ~lg'[g].live]_vars

\* C5 (amended): the same for a guard on a lock whose native object was created.
C5_ScopedGuard ==
    /\ [](\A g \in ScopedGuards :
            lg[g].live /\ lk[lg[g].m_mutex].handle =>
                lk[lg[g].m_mutex].owner = lg[g].t)
    /\ [][\A g \in ScopedGuards :
            ScopeLeft(g) /\ lk[lg[g].m_mutex].handle =>
                /\ last'.calls = <<<<"unlock", lg[g].m_mutex>>>>
                /\ Lost(lk[lg[g].m_mutex], lk'[lg[g].m_mutex], lg[g].t) = 1
                /\ ~lg'[g].live]_vars

\* a scope guarded on a mutex was left by an exception: the guard unlocked once
\* and the lock, which thread 2 could not have, is free
C5_Witness ==
    /\ kind = "mutex" /\ ~disable_throw /\ alive[2]
    /\ last.op = "exception" /\ last.res = "ok" /\ last.t = 1
    /\ last.calls = <<<<"unlock", last.l>>>>
    /\ lk[last.l].owner = NoThread /\ ~lg[last.g].live

(***************************************************************************)
(* Claims about khmz::unique_lock, checked under Spec.                     *)
(***************************************************************************)
Unchanged(g) == ul'[g] = ul[g] /\ lk' = lk /\ ~terminated'

\* every lock object of the program has its native object
Created == \A l \in Locks : lk[l].handle

\* C6: in the default configuration lock() on a guard that owns throws, calls
\* nothing on the lock and leaves the guard owned; unlock() on a guard that does
\* not own throws and calls nothing on the lock.
C6_UsageOrder ==
    [][~disable_throw =>
        \A g \in Guards :
            /\ last'.op = "ul_lock" /\ last'.g = g /\ ul[g].m_owns_lock =>
                  /\ last'.res = "throw" /\ last'.calls = <<>>
                  /\ Unchanged(g) /\ unique_lock_owns_lock(ul'[g])
            /\ last'.op = "ul_unlock" /\ last'.g = g /\ ~ul[g].m_owns_lock =>
                  /\ last'.res = "throw" /\ last'.calls = <<>>
                  /\ Unchanged(g)]_vars

\* lock() on an owned guard has thrown: the guard still owns, the lock was not
\* touched (its thread has the one level the constructor took)
C6_Witness ==
    /\ ~disable_throw /\ last.op = "ul_lock" /\ last.res = "throw"
    /\ last.calls = <<>> /\ ul[last.g].m_owns_lock
    /\ lk[last.l].owner = last.t /\ lk[last.l].count = 1

\* the step moved guard h, which owned lock l, into another guard g
Moved(g, h, l) ==
    /\ last'.op \in {"move_ctor", "move_assign"} /\ last'.res = "ok"
    /\ last'.g = g /\ last'.h = h /\ g # h
    /\ ul[h].m_owns_lock /\ ul[h].m_mutex = l

CallsOn(calls, l) == {i \in DOMAIN calls : calls[i][2] = l}

\* what the destructor of a guard does: one unlock() on its lock if it owns,
\* nothing if it does not
DestroyedRight(g) ==
    last'.op = "dtor" /\ last'.g = g =>
        last'.calls = IF ul[g].m_owns_lock THEN <<<<"unlock", ul[g].m_mutex>>>>
                      ELSE <<>>

\* C7 as stated: after guard h, owning lock l, is moved into guard g, g owns l
\* and h owns and refers to nothing; the move calls nothing on l; destroying a
\* guard that owns l unlocks l once and destroying one that does not own
\* unlocks nothing.
C7_OwnershipTransfer_NoCall ==
    [][\A g, h \in Guards :
        /\ \A l \in Locks :
              Moved(g, h, l) =>
                  /\ unique_lock_owns_lock(ul'[g]) /\ ul'[g].m_mutex = l
                  /\ ~unique_lock_owns_lock(ul'[h]) /\ ul'[h].m_mutex = NoLock
                  /\ CallsOn(last'.calls, l) = {}
        /\ DestroyedRight(g)]_vars

\* C7 (amended): the move calls nothing on l unless it is a move assignment to
\* a guard that itself owned l, which is unlocked once first.
C7_OwnershipTransfer ==
    [][\A g, h \in Guards :
        /\ \A l \in Locks :
              Moved(g, h, l) =>
                  /\ unique_lock_owns_lock(ul'[g]) /\ ul'[g].m_mutex = l
                  /\ ~unique_lock_owns_lock(ul'[h]) /\ ul'[h].m_mutex = NoLock
                  /\ last'.calls =
                        IF last'.op = "move_assign" /\ ul[g].m_owns_lock
                           /\ ul[g].m_mutex # NoLock
                        THEN <<<<"unlock", ul[g].m_mutex>>>> ELSE <<>>
                  /\ CallsOn(last'.calls, l) # {} =>
                        ul[g].m_owns_lock /\ ul[g].m_mutex = l
        /\ DestroyedRight(g)]_vars

\* guard 2, owning a lock, was move-constructed into guard 1; no call was made
\* on the lock and its thread still has its one level
C7_Witness ==
    /\ last.op = "move_ctor" /\ last.res = "ok" /\ last.g = 1 /\ last.h = 2
    /\ last.calls = <<>>
    /\ ul[1].m_owns_lock /\ ul[1].m_mutex = last.l /\ last.l # NoLock
    /\ ~ul[2].m_owns_lock /\ ul[2].m_mutex = NoLock /\ ul[2].live
    /\ lk[last.l].owner = last.t /\ lk[last.l].count = 1

\* C8 as stated, for a khmz::mutex and for a unique_lock, in a program whose
\* locks were all created: with KHMZ_DISABLE_THROW, unlock() on a lock the
\* calling thread does not own, and unlock() through a guard that does not own
\* (and whose thread does not own the lock it refers to, if any), returns
\* normally and changes nothing.
C8_SilentUnlockNoop ==
    [][disable_throw /\ Created =>
        /\ last'.op = "unlock" /\ kind = "mutex" /\ lk[last'.l].owner # last'.t =>
              last'.res = "ok" /\ lk' = lk /\ ul' = ul
        /\ \A g \in Guards :
              /\ last'.op = "ul_unlock" /\ last'.g = g /\ ~ul[g].m_owns_lock
              /\ ul[g].m_mutex # NoLock => lk[ul[g].m_mutex].owner # ul[g].t
              => last'.res = "ok" /\ Unchanged(g)]_vars

\* C9 as stated, in a program whose locks were all created: with
\* KHMZ_DISABLE_THROW, lock() and try_lock() on a guard that owns call nothing
\* on the lock and leave the guard and the lock as they were.
C9_SilentLockNoop ==
    [][disable_throw /\ Created =>
        \A g \in Guards :
            last'.op \in {"ul_lock", "ul_try_lock"} /\ last'.g = g /\ ul[g].m_owns_lock
            => last'.calls = <<>> /\ Unchanged(g)]_vars

\* C10 as stated, in a program whose locks were all created: a live guard's
\* owned flag is set exactly when its thread holds one acquisition of the
\* referenced lock obtained through this guard.
C10_FlagAccurate ==
    Created =>
        \A g \in Guards : ul[g].live => (ul[g].m_owns_lock <=> ul[g].acq = 1)

\* C11: lock() on a guard that does not own and refers to a lock calls lock()
\* on that lock once; when that call throws, the same exception reaches the
\* caller, the guard does not own and still refers to the lock; when it returns
\* the guard owns.
C11_LockFailure ==
    [][\A g \in Guards :
        last'.op = "ul_lock" /\ last'.g = g
        /\ ~ul[g].m_owns_lock /\ ul[g].m_mutex # NoLock =>
            /\ last'.calls = <<<<"lock", ul[g].m_mutex>>>>
            /\ last'.res \in {"ok", "throw"}
            /\ ul'[g].m_mutex = ul[g].m_mutex /\ ul'[g].live /\ ~terminated'
            /\ last'.res = "throw" => ~unique_lock_owns_lock(ul'[g])
            /\ last'.res = "ok" => unique_lock_owns_lock(ul'[g])]_vars

\* lock() on an unowned guard of thread 1 has thrown (the mutex had been
\* abandoned by thread 2): the guard does not own and refers to the same lock
C11_Witness ==
    /\ last.op = "ul_lock" /\ last.res = "throw" /\ last.t = 1 /\ ~alive[2]
    /\ last.calls = <<<<"lock", last.l>>>> /\ last.l # NoLock
    /\ ul[last.g].live /\ ~ul[last.g].m_owns_lock /\ ul[last.g].m_mutex = last.l

\* the step is the move assignment g = std::move(h)
MoveAssigned(g, h) == last'.op = "move_assign" /\ last'.g = g /\ last'.h = h

\* C12: a move assignment to a guard g that owns a lock M other than the lock
\* of the source h calls unlock() on M exactly once (giving back one level of
\* M when the guard's thread owns M) and calls nothing else; afterwards g has
\* the association and the owned flag h had, and h does not own and refers to
\* nothing.  A self-assignment calls nothing and changes nothing.
C12_MoveAssign ==
    [][\A g, h \in Guards :
        /\ MoveAssigned(g, h) /\ g # h /\ ul[g].m_owns_lock
           /\ ul[g].m_mutex # NoLock /\ ul[g].m_mutex # ul[h].m_mutex =>
              LET M == ul[g].m_mutex
              IN  /\ last'.res = "ok" /\ ~terminated'
                  /\ last'.calls = <<<<"unlock", M>>>>
                  /\ lk[M].owner = ul[g].t /\ ~lk[M].corrupt =>
                        Lost(lk[M], lk'[M], ul[g].t) = 1
                        /\ lk'[M].count = lk[M].count - 1
                  /\ \A l \in Locks \ {M} : lk'[l] = lk[l]
                  /\ ul'[g].m_mutex = ul[h].m_mutex
                  /\ ul'[g].m_owns_lock = ul[h].m_owns_lock
                  /\ ul'[h].m_mutex = NoLock /\ ~ul'[h].m_owns_lock
                  /\ ul'[g].live /\ ul'[h].live
        /\ MoveAssigned(g, g) =>
              last'.res = "ok" /\ last'.calls = <<>> /\ Unchanged(g) /\ ul' = ul]_vars

\* guard 1 owned lock M and was assigned guard 2, which owned the other lock:
\* M was unlocked once and is free, guard 1 owns the other lock, guard 2 nothing
C12_Witness ==
    /\ last.op = "move_assign" /\ last.g = 1 /\ last.h = 2 /\ last.res = "ok"
    /\ \E M \in Locks \ {last.l} :
          /\ last.calls = <<<<"unlock", M>>>>
          /\ lk[M].handle /\ lk[M].owner = NoThread
    /\ last.l # NoLock /\ ul[1].m_owns_lock /\ ul[1].m_mutex = last.l
    /\ lk[last.l].owner = last.t
    /\ ul[2].live /\ ~ul[2].m_owns_lock /\ ul[2].m_mutex = NoLock

\* C13: release() on a guard in any state returns normally, calls nothing on
\* the lock, leaves every lock as it was and leaves the guard without
\* association and not owning; the destructor of a guard that does not own
\* (as after release()) calls nothing and changes no lock, the destructor of a
\* guard that owns calls unlock() on its lock exactly once.
C13_Release ==
    [][\A g \in Guards :
        /\ last'.op = "release" /\ last'.g = g =>
              /\ last'.res = "ok" /\ last'.calls = <<>> /\ lk' = lk
              /\ ul'[g].live /\ ul'[g].m_mutex = NoLock
              /\ ~unique_lock_owns_lock(ul'[g])
        /\ last'.op = "dtor" /\ last'.g = g /\ ~ul[g].m_owns_lock =>
              last'.res = "ok" /\ last'.calls = <<>> /\ lk' = lk
        /\ last'.op = "dtor" /\ last'.g = g /\ ul[g].m_owns_lock =>
              last'.calls = <<<<"unlock", ul[g].m_mutex>>>> /\ ul[g].m_mutex # NoLock
        /\ last'.op = "dtor" /\ last'.g = g => ~ul'[g].live]_vars

\* release() was called on a guard that owned a lock: the guard is detached and
\* its thread still owns the lock, with the one level the guard had taken and
\* no guard answerable for it
C13_Witness ==
    /\ last.op = "release" /\ last.res = "ok" /\ last.calls = <<>>
    /\ last.l # NoLock /\ lk[last.l].owner = last.t /\ lk[last.l].count = 1
    /\ GuardHeld(last.t, last.l) = 0
    /\ ul[last.g].live /\ ul[last.g].m_mutex = NoLock /\ ~ul[last.g].m_owns_lock

(***************************************************************************)
(* Further claims about khmz::mutex, checked under SpecLock.               *)
(***************************************************************************)
\* C14 as stated, for a khmz::mutex: a lock() by the thread that owns the lock
\* does not return, and a try_lock() by the thread that owns the lock returns
\* false and leaves the lock as it was.
C14_NonReentrant ==
    [][kind = "mutex" /\ last'.l # NoLock /\ lk[last'.l].owner = last'.t =>
        /\ last'.op # "lock"
        /\ last'.op = "try_lock" => last'.res = "false" /\ lk' = lk]_vars

\* C16: unlock() on a khmz::mutex by a thread that does not own it (nobody
\* owns it, or another thread does) leaves the lock as it was, owner and
\* recursion count, and in the default configuration throws.
C16_UnlockByNonOwner ==
    [][kind = "mutex" /\ last'.op = "unlock" /\ lk[last'.l].owner # last'.t =>
        /\ lk' = lk
        /\ ~disable_throw => last'.res = "throw"]_vars

\* default configuration: thread 1 called unlock() on a mutex that thread 2,
\* running, owns; the call threw and thread 2 still owns the mutex
C16_Witness ==
    /\ kind = "mutex" /\ ~disable_throw
    /\ last.op = "unlock" /\ last.t = 1 /\ last.res = "throw"
    /\ alive[2] /\ lk[last.l].owner = 2 /\ lk[last.l].count = held[2][last.l]

\* C17 as stated: when lock() on a khmz::mutex throws, or try_lock() on it
\* returns false, the call has given the calling thread no ownership of the
\* lock.
C17_FailedAcquire ==
    [][kind = "mutex" /\ last'.op \in {"lock", "try_lock"}
       /\ last'.res \in {"throw", "false"} =>
          Gained(lk[last'.l], lk'[last'.l], last'.t) = 0]_vars

(***************************************************************************)
(* Further claims about khmz::unique_lock, checked under Spec.             *)
(***************************************************************************)
\* the guards that consider themselves responsible for unlocking lock l
Owning(l) == {g \in Guards : ul[g].live /\ ul[g].m_owns_lock /\ ul[g].m_mutex = l}

\* a move hands the responsibility for l from h to g
HandedOver ==
    \A g, h \in Guards, l \in Locks :
        Moved(g, h, l) => g \in Owning(l)' /\ h \notin Owning(l)'

\* C15 as stated, for locks of class khmz::recursive_mutex (the statement is
\* for both lock classes): at most one guard has its owned flag set for a given
\* lock, and a move of a guard that owns takes the flag from the source and
\* gives it to the destination in one step.
C15_OneOwningGuard ==
    /\ [](kind = "recursive_mutex" =>
            \A l \in Locks : Cardinality(Owning(l)) <= 1)
    /\ [][HandedOver]_vars

\* C15 (amended): in the default configuration the guards that have their owned
\* flag set for a lock are all in scopes of the one thread that owns the lock,
\* and are no more than the levels of ownership that thread has; a move of a
\* guard that owns takes the flag from the source and gives it to the
\* destination in one step.
C15_OneOwningThread ==
    /\ [](~disable_throw =>
            \A l \in Locks :
                /\ \A g \in Owning(l) : lk[l].owner = ul[g].t
                /\ Cardinality(Owning(l)) <= lk[l].count)
    /\ [][HandedOver]_vars

\* default configuration: guard 2 of thread 2 refers to a lock that guard 1 of
\* thread 1 owns, and guard 2 has just been refused the lock by try_lock()
C15_Witness ==
    /\ ~disable_throw /\ alive[2]
    /\ last.op = "ul_try_lock" /\ last.res = "false" /\ last.t = 2 /\ last.g = 2
    /\ Owning(last.l) = {1} /\ ul[1].t = 1 /\ ul[2].m_mutex = last.l
    /\ lk[last.l].owner = 1

\* C18 as stated, in the default configuration: every call a guard makes on a
\* lock is made through a non-null m_mutex.
C18_NoNullCall ==
    [][~disable_throw =>
        \A i \in DOMAIN last'.calls : last'.calls[i][2] # NoLock]_vars

\* C19: in the default configuration a live guard whose owned flag is set
\* refers to a lock, and the calls that the destructor and the move assignment
\* make are on a lock.
C19_OwnedHasLock ==
    /\ [](~disable_throw =>
            \A g \in Guards :
                ul[g].live /\ unique_lock_owns_lock(ul[g]) => ul[g].m_mutex \in Locks)
    /\ [][~disable_throw /\ last'.op \in {"dtor", "move_assign"} =>
            /\ last'.res # "crash"
            /\ \A i \in DOMAIN last'.calls : last'.calls[i][2] \in Locks]_vars

\* default configuration: guard 1, which owned a lock, has been destroyed, the
\* unlock was made on that lock and every lock is free; guard 2 lives, does not
\* own and refers to nothing
C19_Witness ==
    /\ ~disable_throw /\ last.op = "dtor" /\ last.g = 1 /\ last.res = "ok"
    /\ last.l \in Locks /\ last.calls = <<<<"unlock", last.l>>>>
    /\ ul[2].live /\ ~ul[2].m_owns_lock /\ ul[2].m_mutex = NoLock
    /\ \A l \in Locks : lk[l].owner = NoThread

(***************************************************************************)
(* Claim about the worker threads, checked under SpecProgress.             *)
(***************************************************************************)
AllDone == \A t \in Threads : ~alive[t]

\* C20: no state of the worker threads is a deadlock (some thread can take a
\* step until all have returned, and std::terminate is never called); every
\* thread eventually is inside its critical section and eventually has left
\* it and returned; in the end the shared lock is owned by nobody.
C20_Progress ==
    /\ [](~terminated /\ (AllDone \/ ENABLED NextProgress))
    /\ \A t \in Threads : <>InCS(t) /\ (InCS(t) ~> ~alive[t])
    /\ <>[](/\ AllDone
            /\ lk[SharedLock].owner = NoThread /\ lk[SharedLock].count = 0
            /\ ~lk[SharedLock].abandoned /\ ~lk[SharedLock].corrupt)

\* default configuration: both threads have been through their critical
\* sections on the shared lock and returned, and nobody owns the lock
C20_Witness ==
    /\ ~disable_throw /\ AllDone /\ ~terminated
    /\ last.op = "return" /\ last.l = SharedLock
    /\ last.calls = <<<<"unlock", SharedLock>>>>
    /\ lk[SharedLock].handle /\ lk[SharedLock].owner = NoThread

=============================================================================
